---------------------------- MODULE Spec2Model ----------------------------
(***************************************************************************)
(* A model of the LLM Reasoning Visualizer front end:                       *)
(*   frontend/src/app/page.tsx                    (Home, the request cycle) *)
(*   frontend/src/components/AttentionViewer.tsx  (heatmap of one head)     *)
(*   frontend/src/components/HiddenStateExplorer.tsx (L2-norm trajectory)   *)
(*                                                                         *)
(* React state is the model's state.  A render is a pure function of props *)
(* and state, so what a component draws is an operator over the variables. *)
(* The state updates a handler makes in one synchronous run are committed  *)
(* together (React 18 batching), so each such run is one action.           *)
(*                                                                         *)
(* Numbers: attention scores and hidden-state components are integers (a   *)
(* fixed-point reading of the JSON numbers).  A heatmap intensity is an    *)
(* exact fraction.  An L2 norm is carried in units of 1/Scale, rounded     *)
(* down.  Strings are sequences of one-character strings.                  *)
(***************************************************************************)
EXTENDS Integers, Sequences, FiniteSets, TLC

VARIABLES
    prompt,      \* Home: useState('') , the textarea's text
    results,     \* Home: AnalysisData | null
    isLoading,   \* Home: boolean
    error,       \* Home: string | null
    activeTab,   \* Home: 'attention' | 'hiddenState' (read and set by the
                 \* render; its useState line is not in page.tsx)
    pending,     \* the fetch calls in flight, in issue order
    issued,      \* how many times handleSubmit has run
    av,          \* AttentionViewer's state while it is mounted
    hs           \* HiddenStateExplorer's state while it is mounted

vars == <<prompt, results, isLoading, error, activeTab, pending, issued, av, hs>>

(***************************************************************************)
(* Bounds of the model.                                                    *)
(***************************************************************************)
\* longest prompt typed in the tokenizer specification
MaxLen == 4
\* most fetch calls issued in one behaviour of the page
MaxRequests == 3
\* most rows, and most entries of a row, of an attention matrix
MaxSeq == 2
\* most display tokens paired with a tensor
MaxTokens == 3
\* most layers of an attention tensor
MaxLayers == 2
\* most heads of one layer
MaxHeads == 2
\* most layers of a hidden-state tensor
MaxHsLayers == 2
\* longest token axis of one hidden-state layer
MaxHsTokens == 2

\* JavaScript's null / undefined
Null == "null"

(***************************************************************************)
(* Sequence helpers.                                                       *)
(***************************************************************************)
\* s.slice(from, to) with 0-based from (inclusive) and to (exclusive)
Slice(s, from, to) == SubSeq(s, from + 1, to)

RECURSIVE Flat(_)
\* Array.prototype.flat(): the rows of a matrix, concatenated
Flat(m) == IF m = <<>> THEN <<>> ELSE Head(m) \o Flat(Tail(m))

RECURSIVE SeqsUpTo(_, _)
\* every sequence over S of length <= n
SeqsUpTo(S, n) ==
    IF n = 0 THEN {<<>>}
    ELSE LET shorter == SeqsUpTo(S, n - 1)
         IN  shorter \cup {Append(s, x) : s \in shorter, x \in S}

Range(s) == {s[i] : i \in 1..Len(s)}

(***************************************************************************)
(* simpleTokenize: text.split(/\s+|(?=[.,;:!?])|(?<=[.,;:!?])/g)           *)
(*                     .filter(token => token.trim() !== '')               *)
(* The split is ECMAScript's RegExp.prototype[Symbol.split]: the pattern is *)
(* tried sticky at each position q; a match ending at e /= p cuts the      *)
(* piece [p, q) and continues from e.                                      *)
(***************************************************************************)
\* \s , as far as the modelled alphabet goes
WhiteSpace == {" ", "\n"}
\* the character class [.,;:!?]
Punctuation == {".", ",", ";", ":", "!", "?"}

RECURSIVE WsRunEnd(_, _)
\* \s+ is greedy: the 0-based index after the whitespace run that starts at q
WsRunEnd(text, q) ==
    IF q < Len(text) /\ text[q + 1] \in WhiteSpace
    THEN WsRunEnd(text, q + 1) ELSE q

\* the pattern with its lookbehind alternative tried first
MatchAtLookbehindFirst(text, q) ==
    IF q > 0 /\ text[q] \in Punctuation THEN q
    ELSE IF text[q + 1] \in WhiteSpace THEN WsRunEnd(text, q)
    ELSE IF text[q + 1] \in Punctuation THEN q
    ELSE -1

\* The sticky match of the pattern at 0-based q < Len(text): the index the
\* match ends at, or -1.  The alternatives are tried in the pattern's order.
MatchAt(text, q) ==
    IF text[q + 1] \in WhiteSpace THEN WsRunEnd(text, q)
    ELSE IF text[q + 1] \in Punctuation THEN q
    ELSE IF q > 0 /\ text[q] \in Punctuation THEN q
    ELSE -1

RECURSIVE SplitLoop(_, _, _, _)
SplitLoop(text, p, q, acc) ==
    IF q >= Len(text) THEN Append(acc, Slice(text, p, Len(text)))
    ELSE LET e == MatchAt(text, q)
         IN  IF e = -1 \/ e = p THEN SplitLoop(text, p, q + 1, acc)
             ELSE SplitLoop(text, e, e, Append(acc, Slice(text, p, q)))

\* String.prototype.split with the tokenizer's pattern, for a non-empty text
Split(text) == SplitLoop(text, 0, 0, <<>>)

RECURSIVE TrimStart(_)
TrimStart(s) ==
    IF s # <<>> /\ Head(s) \in WhiteSpace THEN TrimStart(Tail(s)) ELSE s

RECURSIVE TrimEnd(_)
TrimEnd(s) ==
    IF s # <<>> /\ s[Len(s)] \in WhiteSpace
    THEN TrimEnd(SubSeq(s, 1, Len(s) - 1)) ELSE s

\* String.prototype.trim
Trim(s) == TrimEnd(TrimStart(s))

simpleTokenize(text) ==
    IF text = <<>> THEN <<>>
    ELSE SelectSeq(Split(text), LAMBDA token : Trim(token) # <<>>)

\* useMemo(() => simpleTokenize(promptText), [promptText])
displayTokens == simpleTokenize(prompt)

(***************************************************************************)
(* Values.                                                                 *)
(***************************************************************************)
\* results === null
NoResults == <<>>
\* an optional value that is present
Some(x) == <<x>>
\* selectedTokenIndex === null
NullIndex == -1
\* a component that is not in the rendered tree holds no state
NoAttentionViewer == [mounted |-> FALSE, selectedLayer |-> 0, selectedHead |-> 0]
NoHiddenStateExplorer == [mounted |-> FALSE, selectedTokenIndex |-> NullIndex]

\* "Failed to fetch analysis. Ensure the backend server is running."
FallbackMessage == "Failed to fetch analysis. Ensure the backend server is running."
\* `HTTP error! status: ${response.status} ${response.statusText}`
HttpErrorText == "HTTP error! status: 500 Internal Server Error"

\* AnalysisData, as far as the viewers read it
AnalysisData(att, hid) ==
    [processed_attentions |-> att, processed_hidden_states |-> hid]

\* Two result sets of different shapes the service may answer with.
DataA == AnalysisData(
    << << <<<<1, 3>>, <<2, 2>>>>, <<<<0, 4>>, <<4, 0>>>> >>,
       << <<<<2, 2>>, <<2, 2>>>> >> >>,
    << <<<<1, 0>>, <<0, 0>>>>, <<<<3, 4>>, <<0, 2>>>>, <<<<0, 0>>, <<1, 1>>>> >>)
DataB == AnalysisData(
    << << <<<<5>>>> >> >>,
    << <<<<2, 0>>>> >>)
PageDatasets == {DataA, DataB}

\* The prompts typed on the page: 1 token, 3 tokens, and blanks only.
PagePrompts == {<<"a">>, <<"a", ",", "b">>, <<" ">>}

\* What one fetch can come to.  ok: response.ok and a JSON body.  http: a
\* non-OK response whose JSON body holds detail (message; "" when absent).
\* throw: fetch or response.json() rejected with an Error of that message.
Outcomes ==
    {[kind |-> "ok", data |-> Some(d), message |-> ""] : d \in PageDatasets}
    \cup {[kind |-> "http", data |-> NoResults, message |-> m] :
            m \in {"", "Model not found"}}
    \cup {[kind |-> "throw", data |-> NoResults, message |-> m] :
            m \in {"", "Failed to fetch"}}

\* What the catch block hands to setError.
ErrorMessage(o) ==
    LET thrown == IF o.kind = "http"
                  THEN (IF o.message # "" THEN o.message ELSE HttpErrorText)
                  ELSE o.message
    IN  IF thrown # "" THEN thrown ELSE FallbackMessage

(***************************************************************************)
(* Home's render: which viewer is in the tree.                             *)
(***************************************************************************)
\* {!isLoading && !error && results && ( ... )}
ShowResults(loading, err, res) == ~loading /\ err = Null /\ res # NoResults

AttentionViewerShown(loading, err, res, tab) ==
    /\ ShowResults(loading, err, res)
    /\ tab = "attention"
    /\ res[1].processed_attentions # <<>>

HiddenStateExplorerShown(loading, err, res, tab) ==
    /\ ShowResults(loading, err, res)
    /\ tab = "hiddenState"
    /\ res[1].processed_hidden_states # <<>>

\* useState<number>(0) twice
AVInitial ==
    [mounted |-> TRUE, selectedLayer |-> 0, selectedHead |-> 0]

\* useState<number | null>(displayTokens.length > 0 ? 0 : null)
HSInitial(text) ==
    [mounted |-> TRUE,
     selectedTokenIndex |->
        IF Len(simpleTokenize(text)) > 0 THEN 0 ELSE NullIndex]

\* A component keeps its state while it stays in the tree, starts from its
\* useState initial values when it enters, and has none when it is out.
\* a component that is hidden, not removed, once it has been rendered
ReconcileHidden(prev, shown, initial, none) ==
    IF prev.mounted THEN prev
    ELSE IF shown THEN initial ELSE none

Reconcile(prev, shown, initial, none) ==
    IF ~shown THEN none
    ELSE IF prev.mounted THEN prev ELSE initial

\* The committed render after Home's state became (text, loading, err, res, tab).
Commit(text, loading, err, res, tab) ==
    /\ av' = Reconcile(av, AttentionViewerShown(loading, err, res, tab),
                       AVInitial, NoAttentionViewer)
    /\ hs' = Reconcile(hs, HiddenStateExplorerShown(loading, err, res, tab),
                       HSInitial(text), NoHiddenStateExplorer)

(***************************************************************************)
(* Home's handlers.                                                        *)
(***************************************************************************)
\* handleSubmit without its setError(null)
handleSubmitKeepsError ==
    /\ issued < MaxRequests
    /\ isLoading' = TRUE
    /\ error' = error
    /\ results' = NoResults
    /\ issued' = issued + 1
    /\ pending' = Append(pending,
                     [id |-> issued + 1, prompt |-> prompt, response |-> <<>>])
    /\ Commit(prompt, TRUE, error, NoResults, activeTab)
    /\ UNCHANGED <<prompt, activeTab>>

\* handleSubmit up to its first await: the three setters, then fetch.
handleSubmit ==
    /\ issued < MaxRequests
    /\ isLoading' = TRUE
    /\ error' = Null
    /\ results' = NoResults
    /\ issued' = issued + 1
    /\ pending' = Append(pending,
                     [id |-> issued + 1, prompt |-> prompt, response |-> <<>>])
    /\ Commit(prompt, TRUE, Null, NoResults, activeTab)
    /\ UNCHANGED <<prompt, activeTab>>

\* The form submitted through its button: the button is disabled while
\* isLoading, and the textarea is required.
Submit ==
    /\ ~isLoading
    /\ prompt # <<>>
    /\ handleSubmit

\* A submit event dispatched to the form itself (requestSubmit, a test's
\* fireEvent.submit): handleSubmit has no guard of its own.
SubmitEvent ==
    /\ prompt # <<>>
    /\ handleSubmit

\* The service answers request number i of those in flight.
Settle(i, o) ==
    /\ pending[i].response = <<>>
    /\ pending' = [pending EXCEPT ![i].response = Some(o)]
    /\ UNCHANGED <<prompt, results, isLoading, error, activeTab, issued, av, hs>>

RemoveAt(s, i) == SubSeq(s, 1, i - 1) \o SubSeq(s, i + 1, Len(s))

\* handleSubmit's continuation without its finally block
ResumeWithoutFinally(i) ==
    /\ pending[i].response # <<>>
    /\ LET o == pending[i].response[1]
           res == IF o.kind = "ok" THEN o.data ELSE NoResults
           err == IF o.kind = "ok" THEN error ELSE ErrorMessage(o)
       IN  /\ results' = res
           /\ error' = err
           /\ isLoading' = isLoading
           /\ Commit(prompt, isLoading, err, res, activeTab)
    /\ pending' = RemoveAt(pending, i)
    /\ UNCHANGED <<prompt, activeTab, issued>>

\* handleSubmit after its awaits, for request number i: setResults(data), or
\* the catch block's setError and setResults(null); then setIsLoading(false).
Resume(i) ==
    /\ pending[i].response # <<>>
    /\ LET o == pending[i].response[1]
           res == IF o.kind = "ok" THEN o.data ELSE NoResults
           err == IF o.kind = "ok" THEN error ELSE ErrorMessage(o)
       IN  /\ results' = res
           /\ error' = err
           /\ isLoading' = FALSE
           /\ Commit(prompt, FALSE, err, res, activeTab)
    /\ pending' = RemoveAt(pending, i)
    /\ UNCHANGED <<prompt, activeTab, issued>>

\* onChange={(e) => setPrompt(e.target.value)}; the textarea is disabled
\* while isLoading.
SetPrompt(text) ==
    /\ ~isLoading
    /\ text # prompt
    /\ prompt' = text
    /\ UNCHANGED <<results, isLoading, error, activeTab, pending, issued, av, hs>>

\* onClick={() => setActiveTab(...)}; the tab buttons are part of the
\* results block.
SetActiveTab(tab) ==
    /\ ShowResults(isLoading, error, results)
    /\ tab # activeTab
    /\ activeTab' = tab
    /\ Commit(prompt, isLoading, error, results, tab)
    /\ UNCHANGED <<prompt, results, isLoading, error, pending, issued>>

(***************************************************************************)
(* JavaScript numbers, as far as the viewers compute with them: a finite   *)
(* fraction n/d with d > 0, +Infinity or -Infinity (n the sign), or NaN.   *)
(***************************************************************************)
Num(n) == [k |-> "fin", n |-> n, d |-> 1]
Frac(n, d) == IF d > 0 THEN [k |-> "fin", n |-> n, d |-> d]
              ELSE [k |-> "fin", n |-> -n, d |-> -d]
Infinity(sign) == [k |-> "inf", n |-> sign, d |-> 1]
NaN == [k |-> "nan", n |-> 0, d |-> 1]
Half == Frac(1, 2)

Sign(n) == IF n > 0 THEN 1 ELSE IF n < 0 THEN -1 ELSE 0

\* a - b, the finite operands being whole numbers
NumSub(a, b) ==
    IF a.k = "nan" \/ b.k = "nan" THEN NaN
    ELSE IF a.k = "fin" /\ b.k = "fin" THEN Num(a.n - b.n)
    ELSE IF b.k = "fin" THEN a
    ELSE IF a.k = "fin" THEN Infinity(-b.n)
    ELSE IF a.n = b.n THEN NaN ELSE a

\* a / b, the finite operands being whole numbers
NumDiv(a, b) ==
    IF a.k = "nan" \/ b.k = "nan" THEN NaN
    ELSE IF a.k = "fin" /\ b.k = "fin"
         THEN (IF b.n # 0 THEN Frac(a.n, b.n)
               ELSE IF a.n = 0 THEN NaN ELSE Infinity(Sign(a.n)))
    ELSE IF a.k = "inf" /\ b.k = "inf" THEN NaN
    ELSE IF a.k = "fin" THEN Num(0)
    ELSE Infinity(a.n * (IF b.n < 0 THEN -1 ELSE 1))

RECURSIVE MathMin(_)
\* Math.min(...xs): Infinity for no arguments
MathMin(xs) ==
    IF xs = <<>> THEN Infinity(1)
    ELSE LET rest == MathMin(Tail(xs))
         IN  IF rest.k = "inf" \/ Head(xs) < rest.n THEN Num(Head(xs)) ELSE rest

RECURSIVE MathMax(_)
\* Math.max(...xs): -Infinity for no arguments
MathMax(xs) ==
    IF xs = <<>> THEN Infinity(-1)
    ELSE LET rest == MathMax(Tail(xs))
         IN  IF rest.k = "inf" \/ Head(xs) > rest.n THEN Num(Head(xs)) ELSE rest

(***************************************************************************)
(* AttentionViewer's render, for props attentionData and promptText and    *)
(* state (selectedLayer, selectedHead).  Indices are 0-based as in the     *)
(* source; a TLA+ sequence is indexed from 1.                              *)
(***************************************************************************)
attentionData == results[1].processed_attentions

numLayers == Len(attentionData)

\* attentionData[selectedLayer]?.length || 0
numHeads ==
    IF av.selectedLayer < numLayers
    THEN Len(attentionData[av.selectedLayer + 1]) ELSE 0

\* attentionData[selectedLayer]?.[selectedHead]: the matrix, or nothing
currentAttentionMatrix ==
    IF av.selectedLayer < numLayers /\ av.selectedHead < numHeads
    THEN Some(attentionData[av.selectedLayer + 1][av.selectedHead + 1])
    ELSE <<>>

\* if (!currentAttentionMatrix || currentAttentionMatrix.length === 0 ||
\*     currentAttentionMatrix.length !== displayTokens.length) console.warn(...)
AttentionMismatchWarned(m, tokens) ==
    \/ m = <<>>
    \/ Len(m[1]) = 0
    \/ Len(m[1]) # Len(tokens)

\* if (maxScore === minScore) return 0.5;
\* return (score - minScore) / (maxScore - minScore);
getNormalizedScore(score, lo, hi) ==
    IF hi = lo THEN Half
    ELSE NumDiv(NumSub(score, lo), NumSub(hi, lo))

\* the minimum taken over the first row only
minScoreFirstRow(m) ==
    IF m # <<>> THEN MathMin(IF m[1] = <<>> THEN <<>> ELSE m[1][1]) ELSE Num(0)

\* let minScore = 0; if (currentAttentionMatrix) minScore = Math.min(...flat)
minScore(m) == IF m # <<>> THEN MathMin(Flat(m[1])) ELSE Num(0)

\* let maxScore = 1; if (currentAttentionMatrix) maxScore = Math.max(...flat)
maxScore(m) == IF m # <<>> THEN MathMax(Flat(m[1])) ELSE Num(1)

\* whether matrix[i][j] exists
HasEntry(matrix, i, j) == i < Len(matrix) /\ j < Len(matrix[i + 1])

\* currentAttentionMatrix[i]?.[j] ?? 0
CellScore(matrix, i, j) ==
    IF HasEntry(matrix, i, j) THEN matrix[i + 1][j + 1] ELSE 0

TokenIndices(tokens) == 0..(Len(tokens) - 1)

\* {currentAttentionMatrix && displayTokens.length > 0 && ( <table> ... )}
TableShown(m, tokens) == m # <<>> /\ Len(tokens) > 0

\* The cells of the table body: displayTokens.map((_, i) =>
\* displayTokens.map((_, j) => <td> of score and normalizedScore)).
\* The colour string of line 132 (written constbgColor, read as const
\* bgColor) is a formatting of normalizedScore and is left out.
HeatmapCells(m, tokens) ==
    IF ~TableShown(m, tokens) THEN {}
    ELSE {[row |-> i, col |-> j,
           score |-> CellScore(m[1], i, j),
           normalizedScore |->
               getNormalizedScore(Num(CellScore(m[1], i, j)),
                                  minScore(m), maxScore(m))] :
             i \in TokenIndices(tokens), j \in TokenIndices(tokens)}

\* What the viewer puts where the heatmap goes: the table, or the
\* "Select a layer/head to view attention, or prompt seems empty." line.
\* No path of the render throws.
AttentionOutcome(m, tokens) ==
    IF TableShown(m, tokens) THEN "table" ELSE "fallback message"

\* Array.from({ length: numLayers }, (_, i) => <option value={i}>)
LayerOptions == 0..(numLayers - 1)

\* Array.from({ length: numHeads }, (_, i) => <option value={i}>)
HeadOptions == 0..(numHeads - 1)

\* handleLayerChange without its setSelectedHead(0)
handleLayerChangeKeepsHead(newLayer) ==
    /\ av.mounted
    /\ newLayer \in LayerOptions
    /\ av' = [av EXCEPT !.selectedLayer = newLayer]
    /\ UNCHANGED <<prompt, results, isLoading, error, activeTab, pending, issued, hs>>

\* handleLayerChange, fired by picking one of the layer select's options
handleLayerChange(newLayer) ==
    /\ av.mounted
    /\ newLayer \in LayerOptions
    /\ av' = [av EXCEPT !.selectedLayer = newLayer, !.selectedHead = 0]
    /\ UNCHANGED <<prompt, results, isLoading, error, activeTab, pending, issued, hs>>

\* handleHeadChange, fired by picking one of the head select's options
handleHeadChange(newHead) ==
    /\ av.mounted
    /\ newHead \in HeadOptions
    /\ av' = [av EXCEPT !.selectedHead = newHead]
    /\ UNCHANGED <<prompt, results, isLoading, error, activeTab, pending, issued, hs>>

(***************************************************************************)
(* HiddenStateExplorer's render, for props hiddenStateData and promptText  *)
(* and state selectedTokenIndex.                                           *)
(***************************************************************************)
\* units per 1.0 in which an L2 norm is carried
Scale == 100

svgWidth == 500
svgHeight == 300
padding == 50
chartWidth == svgWidth - 2 * padding
chartHeight == svgHeight - 2 * padding

Max(a, b) == IF a >= b THEN a ELSE b
Min(a, b) == IF a <= b THEN a ELSE b

RECURSIVE SqrtSearch(_, _, _)
SqrtSearch(n, lo, hi) ==
    IF lo = hi THEN lo
    ELSE LET mid == (lo + hi + 1) \div 2
         IN  IF mid * mid <= n THEN SqrtSearch(n, mid, hi)
             ELSE SqrtSearch(n, lo, mid - 1)

\* Math.sqrt(x) in units of 1/Scale, rounded down
MathSqrt(x) == SqrtSearch(x * Scale * Scale, 0, x * Scale + Scale)

RECURSIVE SumOfSquares(_)
\* vector.reduce((sum, val) => sum + val * val, 0)
SumOfSquares(vector) ==
    IF vector = <<>> THEN 0
    ELSE SumOfSquares(SubSeq(vector, 1, Len(vector) - 1))
         + vector[Len(vector)] * vector[Len(vector)]

\* the squared norm
L2NormNoSqrt(vector) == SumOfSquares(vector) * Scale

\* Math.sqrt(vector.reduce(...))
L2Norm(vector) == MathSqrt(SumOfSquares(vector))

hiddenStateData == results[1].processed_hidden_states

RECURSIVE ChartFrom(_, _, _)
\* hiddenStateData.forEach((layerData, layerIndex) => { if (layerData &&
\* layerData[selectedTokenIndex]) chartData.push({layer, l2norm}) })
ChartFrom(data, tokenIndex, layerIndex) ==
    IF layerIndex >= Len(data) THEN <<>>
    ELSE LET layerData == data[layerIndex + 1]
             point == IF tokenIndex < Len(layerData)
                      THEN <<[layer |-> layerIndex,
                              l2norm |-> L2Norm(layerData[tokenIndex + 1])]>>
                      ELSE <<>>
         IN  point \o ChartFrom(data, tokenIndex, layerIndex + 1)

chartDataOf(data, tokenIndex) ==
    IF tokenIndex # NullIndex /\ Len(data) > 0
    THEN ChartFrom(data, tokenIndex, 0) ELSE <<>>

chartData == chartDataOf(hiddenStateData, hs.selectedTokenIndex)

RECURSIVE SeqMax(_)
SeqMax(xs) == IF Len(xs) = 1 THEN xs[1] ELSE Max(xs[1], SeqMax(Tail(xs)))

RECURSIVE SeqMin(_)
SeqMin(xs) == IF Len(xs) = 1 THEN xs[1] ELSE Min(xs[1], SeqMin(Tail(xs)))

Norms(points) == [i \in 1..Len(points) |-> points[i].l2norm]

\* chartData.length > 0 ? Math.max(...chartData.map(d => d.l2norm)) : 0
maxL2Norm == IF Len(chartData) > 0 THEN SeqMax(Norms(chartData)) ELSE 0

\* chartData.length > 0 ? Math.min(...chartData.map(d => d.l2norm)) : 0
minL2Norm == IF Len(chartData) > 0 THEN SeqMin(Norms(chartData)) ELSE 0

\* padding + (layerIndex / Math.max(1, hiddenStateData.length - 1)) * chartWidth
getX(layerIndex) ==
    LET den == Max(1, Len(hiddenStateData) - 1)
    IN  Frac(padding * den + layerIndex * chartWidth, den)

\* padding + chartHeight
\*   - ((l2norm - minL2Norm) / Math.max(1, maxL2Norm - minL2Norm)) * chartHeight
\* for l2norm in units of 1/Scale
getY(l2norm) ==
    LET den == Max(1 * Scale, maxL2Norm - minL2Norm)
    IN  Frac((padding + chartHeight) * den - (l2norm - minL2Norm) * chartHeight,
             den)

\* a whole number in units of 1/Scale
FromInt(n) == n * Scale

\* {chartData.length > 0 && selectedTokenIndex !== null && ( <svg> ... )}
ChartShown == Len(chartData) > 0 /\ hs.selectedTokenIndex # NullIndex

\* <path d={chartData.map((d, i) => `M|L ${getX(d.layer)} ${getY(d.l2norm)}`)}>
PathVertices ==
    [i \in 1..Len(chartData) |->
        [x |-> getX(chartData[i].layer), y |-> getY(chartData[i].l2norm)]]

\* <circle cx={getX(d.layer)} cy={getY(d.layer)} /> for each d of chartData
PointMarkers ==
    [i \in 1..Len(chartData) |->
        [x |-> getX(chartData[i].layer),
         y |-> getY(FromInt(chartData[i].layer))]]

\* displayTokens.map((token, idx) => <option value={idx}>)
TokenOptions == 0..(Len(displayTokens) - 1)

\* hiddenStateData[0].length, the tensor's token dimension
hiddenTokenCount == Len(hiddenStateData[1])

\* if (displayTokens.length > 0 && hiddenStateData[0] &&
\*     displayTokens.length !== hiddenStateData[0].length) console.warn(...)
\* The render has returned before this when hiddenStateData is empty.
HiddenMismatchWarned(data, tokens) ==
    /\ Len(tokens) > 0
    /\ Len(data) > 0
    /\ Len(tokens) # Len(data[1])

\* handleTokenChange, fired by picking one of the token select's options
handleTokenChange(index) ==
    /\ hs.mounted
    /\ index \in TokenOptions
    /\ hs' = [hs EXCEPT !.selectedTokenIndex = index]
    /\ UNCHANGED <<prompt, results, isLoading, error, activeTab, pending, issued, av>>

(***************************************************************************)
(* The page, driven through its rendered controls.                         *)
(***************************************************************************)
Tabs == {"attention", "hiddenState"}

\* Either tab may be the one first shown: activeTab's initial value is not
\* in page.tsx.
Init ==
    /\ prompt = <<>>
    /\ results = NoResults
    /\ isLoading = FALSE
    /\ error = Null
    /\ activeTab \in Tabs
    /\ pending = <<>>
    /\ issued = 0
    /\ av = NoAttentionViewer
    /\ hs = NoHiddenStateExplorer

Respond == \E i \in 1..Len(pending) : \E o \in Outcomes : Settle(i, o)
Continue == \E i \in 1..Len(pending) : Resume(i)
Type == \E text \in PagePrompts : SetPrompt(text)
SwitchTab == \E tab \in Tabs : SetActiveTab(tab)
SelectLayer == \E l \in 0..MaxLayers : handleLayerChange(l)
SelectHead == \E h \in 0..MaxHeads : handleHeadChange(h)
SelectToken == \E t \in 0..MaxTokens : handleTokenChange(t)

Next ==
    \/ Submit
    \/ Respond
    \/ Continue
    \/ Type
    \/ SwitchTab
    \/ SelectLayer
    \/ SelectHead
    \/ SelectToken

Spec == Init /\ [][Next]_vars

(***************************************************************************)
(* The page when submit events also reach the form while a request is in   *)
(* flight.                                                                 *)
(***************************************************************************)
NextOverlap ==
    \/ SubmitEvent
    \/ Respond
    \/ Continue
    \/ Type
    \/ SwitchTab
    \/ SelectLayer
    \/ SelectHead
    \/ SelectToken

SpecOverlap == Init /\ [][NextOverlap]_vars

(***************************************************************************)
(* The page with a result set on display (Ready), its inputs drawn widely. *)
(* Each specification below starts where a response has just been handled. *)
(***************************************************************************)
Ready(text, data, tab) ==
    /\ prompt = text
    /\ results = Some(data)
    /\ isLoading = FALSE
    /\ error = Null
    /\ activeTab = tab
    /\ pending = <<>>
    /\ issued = 1
    /\ av = Reconcile(NoAttentionViewer,
                      AttentionViewerShown(FALSE, Null, Some(data), tab),
                      AVInitial, NoAttentionViewer)
    /\ hs = Reconcile(NoHiddenStateExplorer,
                      HiddenStateExplorerShown(FALSE, Null, Some(data), tab),
                      HSInitial(text), NoHiddenStateExplorer)

\* A prompt of n display tokens: a blank, then "a" and "," in turn.
TokenPrompt(n) ==
    <<" ">> \o [i \in 1..n |-> IF i % 2 = 1 THEN "a" ELSE ","]

(* The tokenizer: the prompt is edited while the viewer shows its tokens. *)
Alphabet == {"a", "b", " ", "\n", ",", "!", "."}
HelloWorld ==
    <<"H", "e", "l", "l", "o", ",", " ", "w", "o", "r", "l", "d", "!">>

InitTokenize == Ready(<<"a">>, DataA, "attention")

TypeChar ==
    \E c \in Alphabet :
        /\ Len(prompt) < MaxLen
        /\ SetPrompt(Append(prompt, c))
DeleteChar ==
    /\ prompt # <<>>
    /\ Len(prompt) <= MaxLen
    /\ SetPrompt(SubSeq(prompt, 1, Len(prompt) - 1))
Paste == SetPrompt(HelloWorld)
ClearPrompt == SetPrompt(<<>>)

NextTokenize ==
    \/ TypeChar
    \/ DeleteChar
    \/ Paste
    \/ ClearPrompt

SpecTokenize == InitTokenize /\ [][NextTokenize]_vars

(* The attention viewer over a range of tensors and token counts. *)
\* every matrix, ragged ones included, of up to MaxSeq rows of up to MaxSeq
\* of these scores
Scores == {1, 3}
Matrices == SeqsUpTo(SeqsUpTo(Scores, MaxSeq), MaxSeq)
\* matrices with more than two distinct scores; the last is ragged
SampleMatrices == { <<<<1, 4>>, <<2, 2>>>>, <<<<0, 4>>, <<4, 0>>>> }
RaggedSample == <<<<0, 1, 3>>, <<3>>>>
\* tensors of every shape of up to MaxLayers layers of up to MaxHeads heads
\* (a layer may have none), and the one-head tensor of every matrix
AttentionTensors ==
    (SeqsUpTo(SeqsUpTo(SampleMatrices, MaxHeads), MaxLayers) \ {<<>>})
    \cup {<< <<m>> >> : m \in Matrices \cup {RaggedSample}}

InitAttention ==
    \E t \in AttentionTensors :
        Ready(TokenPrompt(0), AnalysisData(t, DataB.processed_hidden_states),
              "attention")

TypeTokens == \E n \in 0..MaxTokens : SetPrompt(TokenPrompt(n))

NextAttention ==
    \/ SelectLayer
    \/ SelectHead
    \/ TypeTokens

SpecAttention == InitAttention /\ [][NextAttention]_vars

(* The hidden-state explorer over a range of tensors and token counts. *)
Vectors == {<<0, 0>>, <<1, -2>>}
ExampleHidden == << <<<<1, 0>>>>, <<<<3, 4>>>>, <<<<0, 0>>>> >>
HiddenTensors ==
    (SeqsUpTo(SeqsUpTo(Vectors, MaxHsTokens), MaxHsLayers) \ {<<>>})
    \cup {ExampleHidden}

InitHidden ==
    \E h \in HiddenTensors : \E n \in 0..MaxTokens :
        Ready(TokenPrompt(n), AnalysisData(DataB.processed_attentions, h),
              "hiddenState")

NextHidden == SelectToken

SpecHidden == InitHidden /\ [][NextHidden]_vars

(***************************************************************************)
(* Properties.                                                             *)
(***************************************************************************)
RECURSIVE Concat(_)
Concat(seqs) == IF seqs = <<>> THEN <<>> ELSE Head(seqs) \o Concat(Tail(seqs))

\* position i of text starts a token: a character that is not whitespace,
\* at the start or after whitespace or next to a punctuation character
StartsToken(text, i) ==
    /\ text[i] \notin WhiteSpace
    /\ \/ i = 1
       \/ text[i] \in Punctuation
       \/ text[i - 1] \in WhiteSpace \cup Punctuation

\* C9: for every prompt, the tokens are non-empty and hold no whitespace,
\* a punctuation character . , ; : ! ? is always a token by itself, the
\* tokens in order spell the prompt without its whitespace, a new token
\* starts exactly after whitespace and next to punctuation, the empty
\* string gives no tokens, and "Hello, world!" gives Hello , world !
C9_TokenizeSplits ==
    LET tokens == displayTokens
    IN  /\ \A k \in 1..Len(tokens) :
              /\ tokens[k] # <<>>
              /\ Range(tokens[k]) \cap WhiteSpace = {}
              /\ Range(tokens[k]) \cap Punctuation # {} => Len(tokens[k]) = 1
        /\ Concat(tokens) = SelectSeq(prompt, LAMBDA c : c \notin WhiteSpace)
        /\ Len(tokens) = Cardinality({i \in 1..Len(prompt) : StartsToken(prompt, i)})
        /\ prompt = <<>> => tokens = <<>>
        /\ prompt = HelloWorld =>
              tokens = << <<"H", "e", "l", "l", "o">>, <<",">>,
                          <<"w", "o", "r", "l", "d">>, <<"!">> >>

\* a prompt where whitespace follows punctuation and a word follows that
C9_Witness ==
    /\ prompt = <<",", " ", "a", "!">>
    /\ displayTokens = << <<",">>, <<"a">>, <<"!">> >>

(* ---- the request cycle ---- *)

\* this step ran handleSubmit's continuation for request number i in flight
Handled(i) ==
    /\ i \in 1..Len(pending)
    /\ pending[i].response # <<>>
    /\ pending' = RemoveAt(pending, i)

\* C1: once a later request has been issued, handling the response of an
\* earlier one changes none of results, error and isLoading.
C1_StaleResponseIgnored ==
    [][\A i \in 1..Len(pending) :
          (Handled(i) /\ pending[i].id < issued)
              => UNCHANGED <<results, error, isLoading>>]_vars

C2_AtMostOne ==
    /\ ~(results # NoResults /\ error # Null)
    /\ isLoading => (results = NoResults /\ error = Null)

C2_Step ==
    /\ issued' = issued + 1 =>
          /\ ~isLoading
          /\ isLoading' /\ results' = NoResults /\ error' = Null
    /\ Len(pending') < Len(pending) =>
          /\ isLoading /\ ~isLoading'
          /\ Handled(1)
          /\ LET o == pending[1].response[1]
             IN  IF o.kind = "ok"
                 THEN results' = o.data /\ results' # NoResults /\ error' = Null
                 ELSE error' \notin {Null, ""} /\ results' = NoResults
    /\ <<results, error, isLoading>>' # <<results, error, isLoading>> =>
          (issued' = issued + 1 \/ Len(pending') < Len(pending))

\* C2: submit moves to Loading with results and error cleared; handling an
\* OK response moves Loading to Ready with results the response's data and
\* no error; handling a rejected fetch or a non-OK response moves Loading
\* to Failed with a message and no results; nothing else moves the cycle.
\* Always at most one of results and error is set, and neither while
\* isLoading.
C2_Lifecycle == []C2_AtMostOne /\ [][C2_Step]_vars

\* a second request has failed after the first was answered
C2_Witness ==
    /\ issued = 2
    /\ pending = <<>>
    /\ ~isLoading
    /\ error # Null
    /\ results = NoResults

C10_Inert ==
    isLoading => (~av.mounted /\ ~hs.mounted)

C10_Step ==
    /\ (isLoading /\ isLoading') => UNCHANGED <<av, hs>>
    /\ (results' # results /\ results' # NoResults) =>
          /\ av'.mounted => av' = [mounted |-> TRUE, selectedLayer |-> 0,
                                   selectedHead |-> 0]
          /\ hs'.mounted =>
                hs'.selectedTokenIndex =
                    IF Len(displayTokens') > 0 THEN 0 ELSE NullIndex
    /\ (~av.mounted /\ av'.mounted) =>
          (av'.selectedLayer = 0 /\ av'.selectedHead = 0)
    /\ (~hs.mounted /\ hs'.mounted) =>
          hs'.selectedTokenIndex =
              IF Len(displayTokens') > 0 THEN 0 ELSE NullIndex

\* C10: while a request is pending no viewer is in the tree, so no selection
\* exists, changes or is drawn; and whenever a new result set becomes the
\* current one, the viewer that shows it starts from layer 0, head 0 and
\* token 0 (no token when the prompt has none), as does the other viewer
\* when its tab is opened.
C10_SelectionsInertAndReset == []C10_Inert /\ [][C10_Step]_vars

\* a second result set is on display with the initial selection, in a
\* tensor where another layer could have been selected
C10_Witness ==
    /\ issued = 2
    /\ ShowResults(isLoading, error, results)
    /\ av = AVInitial
    /\ numLayers > 1

(* ---- the attention heatmap ---- *)

\* an n x n matrix with n >= 1
IsSquare(matrix) ==
    /\ Len(matrix) >= 1
    /\ \A i \in 1..Len(matrix) : Len(matrix[i]) = Len(matrix)

InUnitRange(x) == x.k = "fin" /\ 0 <= x.n /\ x.n <= x.d

\* C3: with an n x n matrix selected and a token count other than n, no
\* heatmap cell has a row or column index >= min(token count, n).
C3_PairsUpToMin ==
    LET m == currentAttentionMatrix
    IN  (av.mounted /\ m # <<>> /\ IsSquare(m[1])
            /\ Len(displayTokens) # Len(m[1])) =>
        \A c \in HeatmapCells(m, displayTokens) :
            /\ c.row < Min(Len(displayTokens), Len(m[1]))
            /\ c.col < Min(Len(displayTokens), Len(m[1]))

\* C4: with an n x n matrix selected, every heatmap cell has an intensity
\* in [0,1], whatever the token count.
C4_IntensityInUnitRange ==
    LET m == currentAttentionMatrix
    IN  (av.mounted /\ m # <<>> /\ IsSquare(m[1])) =>
        \A c \in HeatmapCells(m, displayTokens) : InUnitRange(c.normalizedScore)

\* C5: every heatmap cell that has an entry in the selected matrix M shows
\* M[i][j] as its score, and its intensity is 1/2 when all entries of M are
\* equal and (M[i][j] - lo) / (hi - lo) otherwise, lo and hi being the least
\* and the greatest entry of the whole of M: 0 at lo, 1 at hi.
C5_MinMaxNormalisation ==
    LET m == currentAttentionMatrix
    IN  (av.mounted /\ m # <<>>) =>
        \A c \in HeatmapCells(m, displayTokens) :
            HasEntry(m[1], c.row, c.col) =>
                LET entries == Range(Flat(m[1]))
                    lo == CHOOSE x \in entries : \A y \in entries : x <= y
                    hi == CHOOSE x \in entries : \A y \in entries : x >= y
                    t == c.normalizedScore
                IN  /\ c.score = m[1][c.row + 1][c.col + 1]
                    /\ t.k = "fin" /\ t.d > 0
                    /\ IF lo = hi THEN 2 * t.n = t.d
                       ELSE /\ t.n * (hi - lo) = (c.score - lo) * t.d
                            /\ c.score = lo => t.n = 0
                            /\ c.score = hi => t.n = t.d

\* a cell of a matrix entry is drawn with an intensity strictly between 0
\* and 1 other than 1/2, and the matrix has more than one row
C5_Witness ==
    LET m == currentAttentionMatrix
    IN  /\ av.mounted /\ m # <<>> /\ Len(m[1]) > 1
        /\ \E c \in HeatmapCells(m, displayTokens) :
              /\ HasEntry(m[1], c.row, c.col)
              /\ 0 < c.normalizedScore.n
              /\ c.normalizedScore.n < c.normalizedScore.d
              /\ 2 * c.normalizedScore.n # c.normalizedScore.d

\* C6: a selection whose layer is >= numLayers, or whose head is >= the
\* number of heads of the selected layer, comes out as an IndexOutOfRange
\* error.
C6_OutOfRangeRejected ==
    (av.mounted /\ (av.selectedLayer >= numLayers \/ av.selectedHead >= numHeads))
        => AttentionOutcome(currentAttentionMatrix, displayTokens) = "IndexOutOfRange"

(* ---- the hidden-state chart ---- *)

RECURSIVE SumOver(_, _)
\* the sum of f[i] over the finite set of indices
SumOver(f, indices) ==
    IF indices = {} THEN 0
    ELSE LET i == CHOOSE x \in indices : TRUE
         IN  f[i] + SumOver(f, indices \ {i})

\* n is the Euclidean norm of vector, in units of 1/Scale, rounded down
IsEuclideanNorm(n, vector) ==
    LET sq == SumOver([i \in DOMAIN vector |-> vector[i] * vector[i]],
                      DOMAIN vector) * Scale * Scale
    IN  /\ n >= 0
        /\ n * n <= sq
        /\ sq < (n + 1) * (n + 1)
        /\ n = 0 <=> \A i \in DOMAIN vector : vector[i] = 0

\* C7: for a selected token index, the trajectory has a point for exactly
\* the layers whose token axis holds that index, in strictly increasing
\* layer order; each point's l2norm is the Euclidean norm of that layer's
\* vector at the index (>= 0, and 0 exactly for the zero vector); so there
\* are as many points as layers when every layer holds the index; and the
\* vectors [1,0], [3,4], [0,0] of three layers give the norms 1, 5, 0.
C7_Trajectory ==
    (hs.mounted /\ hs.selectedTokenIndex # NullIndex) =>
        LET t == hs.selectedTokenIndex
            data == hiddenStateData
            points == chartData
            holding == {l \in 0..(Len(data) - 1) : t < Len(data[l + 1])}
        IN  /\ {points[i].layer : i \in 1..Len(points)} = holding
            /\ \A i, j \in 1..Len(points) :
                  i < j => points[i].layer < points[j].layer
            /\ \A i \in 1..Len(points) :
                  IsEuclideanNorm(points[i].l2norm,
                                  data[points[i].layer + 1][t + 1])
            /\ holding = 0..(Len(data) - 1) => Len(points) = Len(data)
            /\ (data = ExampleHidden /\ t = 0) =>
                  Norms(points) = <<1 * Scale, 5 * Scale, 0>>

\* a token is selected that the first layer lacks and the second holds,
\* with the vector [1, -2] of norm 2.23...
C7_Witness ==
    /\ hs.mounted
    /\ hs.selectedTokenIndex = 1
    /\ Len(hiddenStateData) = 2
    /\ Len(chartData) = 1
    /\ chartData[1].layer = 1
    /\ 2 * Scale < chartData[1].l2norm
    /\ chartData[1].l2norm < 3 * Scale

InViewport(point) ==
    /\ point.x.k = "fin" /\ point.y.k = "fin"
    /\ padding * point.x.d <= point.x.n
    /\ point.x.n <= (svgWidth - padding) * point.x.d
    /\ padding * point.y.d <= point.y.n
    /\ point.y.n <= (svgHeight - padding) * point.y.d

C8_PathInViewport ==
    ChartShown => \A i \in 1..Len(chartData) : InViewport(PathVertices[i])

\* C8: every path vertex and every point marker of the chart is drawn at
\* finite coordinates inside the viewport, padding <= x <= width - padding
\* and padding <= y <= height - padding.
C8_CoordinatesInViewport ==
    ChartShown =>
        \A i \in 1..Len(chartData) :
            InViewport(PathVertices[i]) /\ InViewport(PointMarkers[i])


(***************************************************************************)
(* C11: the selectors offer valid indices only.  While the attention       *)
(* viewer is shown its layer select offers exactly the indices of          *)
(* attentionData and its head select exactly the indices of                *)
(* attentionData[selectedLayer]; while the hidden-state explorer is shown  *)
(* every index its token select offers lies within the token dimension of  *)
(* hiddenStateData.                                                        *)
(***************************************************************************)
IndicesOf(s) == {i - 1 : i \in DOMAIN s}

C11_LayerAndHeadOptionsValid ==
    av.mounted =>
        /\ LayerOptions = IndicesOf(attentionData)
        /\ av.selectedLayer \in LayerOptions =>
               HeadOptions = IndicesOf(attentionData[av.selectedLayer + 1])

C11_TokenOptionsValid ==
    hs.mounted => TokenOptions \subseteq 0..(hiddenTokenCount - 1)

C11_SelectorsOfferValid ==
    C11_LayerAndHeadOptionsValid /\ C11_TokenOptionsValid

(***************************************************************************)
(* C12: a mismatch is reported exactly when the token count differs from   *)
(* the tensor's sequence length.  While the attention viewer shows a       *)
(* matrix, its warning is logged if and only if the number of display      *)
(* tokens differs from the matrix's number of rows; while the hidden-state *)
(* explorer is shown, its warning is logged if and only if the number of   *)
(* display tokens differs from the tensor's token dimension, a token count *)
(* of zero included.                                                       *)
(***************************************************************************)
C12_AttentionMismatchIff ==
    (av.mounted /\ currentAttentionMatrix # <<>>) =>
        (AttentionMismatchWarned(currentAttentionMatrix, displayTokens)
            <=> Len(displayTokens) # Len(currentAttentionMatrix[1]))

C12_HiddenMismatchIff ==
    hs.mounted =>
        (HiddenMismatchWarned(hiddenStateData, displayTokens)
            <=> Len(displayTokens) # hiddenTokenCount)

C12_MismatchReportedIff ==
    C12_AttentionMismatchIff /\ C12_HiddenMismatchIff

(* ---- one request at a time ---- *)

\* no request is in flight while idle, exactly one while loading
C13_LoadingIffOutstanding ==
    /\ Len(pending) <= 1
    /\ isLoading <=> Len(pending) = 1

\* a request is issued, and the prompt edited, only while not loading
C13_Step ==
    /\ issued' = issued + 1 =>
          ~isLoading /\ pending = <<>> /\ isLoading' /\ Len(pending') = 1
    /\ prompt' # prompt => ~isLoading
    /\ (isLoading /\ ~isLoading') => Handled(1)

\* C13: at most one request is in flight.  With the page driven through
\* its controls, which are disabled while isLoading, a submit is issued
\* only when none is outstanding, the prompt cannot be edited meanwhile,
\* and isLoading is true exactly from the submit until that request's
\* response has been handled.
C13_OneInFlight == []C13_LoadingIffOutstanding /\ [][C13_Step]_vars

\* a second request is in flight after the first has been handled
C13_Witness ==
    /\ isLoading
    /\ Len(pending) = 1
    /\ pending[1].id = 2
    /\ issued = 2

(* ---- the tokens shown with a result set ---- *)

C14_Step ==
    /\ (Handled(1) /\ ShowResults(isLoading', error', results')) =>
          displayTokens' = simpleTokenize(pending[1].prompt)
    /\ (ShowResults(isLoading, error, results) /\ results' = results
           /\ ShowResults(isLoading', error', results')) =>
          displayTokens' = displayTokens

\* C14: the tokens shown with a result set are those of the submitted
\* prompt.  When a response is handled and its result set displayed, the
\* viewers' tokens are the tokenization of the prompt sent with that
\* request, and for as long as that result set stays on display no step,
\* an edit of the prompt field included, changes them.
C14_TokensOfSubmittedPrompt == [][C14_Step]_vars

(* ---- the attention viewer's selection ---- *)

EveryLayerHasAHead == \A l \in DOMAIN attentionData : Len(attentionData[l]) >= 1

\* C15: the attention selection stays in range.  On a tensor whose every
\* layer has at least one head, whatever layers and heads have been picked
\* through the selects, selectedLayer is an index of attentionData and
\* selectedHead an index of attentionData[selectedLayer].
C15_SelectionInRange ==
    (av.mounted /\ EveryLayerHasAHead) =>
        /\ 0 <= av.selectedLayer /\ av.selectedLayer < numLayers
        /\ 0 <= av.selectedHead
        /\ av.selectedHead < Len(attentionData[av.selectedLayer + 1])

\* the last head of the second layer is selected, on a tensor whose first
\* layer has fewer heads than its second
C15_Witness ==
    /\ av.mounted
    /\ EveryLayerHasAHead
    /\ numLayers = 2
    /\ Len(attentionData[1]) < Len(attentionData[2])
    /\ av.selectedLayer = 1
    /\ av.selectedHead = Len(attentionData[2]) - 1

(* ---- the chart's markers ---- *)

\* the path's vertices follow the trajectory, point by point
C16_PathFollowsTrajectory ==
    ChartShown =>
        /\ Len(PathVertices) = Len(chartData)
        /\ \A i \in 1..Len(chartData) :
              /\ PathVertices[i].x = getX(chartData[i].layer)
              /\ PathVertices[i].y = getY(chartData[i].l2norm)
        /\ \A i, j \in 1..Len(chartData) :
              i < j => chartData[i].layer < chartData[j].layer

\* C16: markers sit on the path.  While the chart is shown, the marker of
\* every trajectory point is drawn at the same (x, y) as the path's vertex
\* for that point, (getX(layer), getY(l2norm)), and the vertices come in
\* the trajectory's order.
C16_MarkersOnPath ==
    /\ C16_PathFollowsTrajectory
    /\ ChartShown =>
          \A i \in 1..Len(chartData) : PointMarkers[i] = PathVertices[i]

=============================================================================
